---- MODULE Spec2Model ----
(***************************************************************************)
(* State-machine model of the two React components of the repository:      *)
(*   WebConverter  (src/components/WebConverter.tsx)                       *)
(*   AIAssistant   (src/components/AIAssistant.tsx)                        *)
(*                                                                         *)
(* Conventions                                                             *)
(*   - a nullable value is a sequence: null is <<>>, a present v is <<v>>; *)
(*   - a JavaScript string that the code inspects (file names, chat input) *)
(*     is a sequence of one-character strings; a template literal is a     *)
(*     sequence of string pieces;                                          *)
(*   - progress is kept in tenths of a percent (4.5 is 45, 100 is 1000);   *)
(*   - an event handler is a function from the world before the event to   *)
(*     the world after it, so the sequential setState calls of a handler   *)
(*     compose in source order; React drops state updates of an unmounted  *)
(*     component, which is what the setters do when mounted is FALSE.      *)
(***************************************************************************)
EXTENDS Integers, Sequences, FiniteSets, TLC

VARIABLES
  \* ---- WebConverter
  mounted,         \* the component is in the view tree
  format,          \* prop format, owned by the host
  file,            \* useState file
  loading,         \* useState loading
  downloadReady,   \* useState downloadReady
  error,           \* useState error
  statusMessage,   \* useState statusMessage
  telemetry,       \* useState telemetry
  simProgress,     \* useState simProgress (tenths of a percent)
  resultBlob,      \* useState resultBlob
  progressTimer,   \* useRef progressTimer.current
  telemetryTimer,  \* useRef telemetryTimer.current
  progIntervals,   \* live window.setInterval progress callbacks with their closures
  telIntervals,    \* live window.setInterval telemetry callbacks with their closures
  nextTimerId,     \* the id the next window.setInterval returns
  errorSignal,     \* the last argument of onErrorUpdate, <<>> before any call
  downloads,       \* the download side effects so far (a.click()), oldest first
  \* ---- AIAssistant
  errorState,        \* prop errorState, owned by the host
  messages,          \* useState messages
  input,             \* useState input
  aiLoading,         \* useState loading
  errorAcknowledged, \* useRef errorAcknowledged.current
  replyTimeouts,     \* pending window.setTimeout reply callbacks with their closures
  deliveries         \* the errorState values rendered so far, oldest first, each
                     \* with the alert messages of the transcript after its effect

convVars == <<mounted, format, file, loading, downloadReady, error, statusMessage,
              telemetry, simProgress, resultBlob, progressTimer, telemetryTimer,
              progIntervals, telIntervals, nextTimerId, errorSignal, downloads>>
aiVars == <<errorState, messages, input, aiLoading, errorAcknowledged, replyTimeouts,
            deliveries>>
vars == <<convVars, aiVars>>

\* ------------------------------------------------------------------ bounds
MaxRuns == 2
MaxDownloads == 3
MaxTelTicks == 7
MaxMessages == 6
MaxDeliveries == 3

\* ------------------------------------------------------- nullable values
None == <<>>
Some(x) == <<x>>

\* ------------------------------------------------------------- strings
IsPrefix(p, s) == Len(p) <= Len(s) /\ SubSeq(s, 1, Len(p)) = p

RECURSIVE ReplaceFirst(_, _, _)
\* String.prototype.replace(pattern, replacement) with a string pattern:
\* only the first occurrence is replaced.
ReplaceFirst(s, pat, rep) ==
  IF IsPrefix(pat, s) THEN rep \o SubSeq(s, Len(pat) + 1, Len(s))
  ELSE IF s = <<>> THEN <<>>
  ELSE <<Head(s)>> \o ReplaceFirst(Tail(s), pat, rep)

IsSpace(c) == c \in {" ", "\t", "\n"}

RECURSIVE SplitOnSpace(_, _)
\* s.split(/\s+/): the pieces between maximal runs of white space; acc is the
\* piece being read.
SplitOnSpace(s, acc) ==
  IF s = <<>> THEN <<acc>>
  ELSE IF IsSpace(Head(s))
       THEN IF Tail(s) # <<>> /\ IsSpace(Head(Tail(s)))
            THEN SplitOnSpace(Tail(s), acc)
            ELSE <<acc>> \o SplitOnSpace(Tail(s), <<>>)
       ELSE SplitOnSpace(Tail(s), Append(acc, Head(s)))

Min(a, b) == IF a < b THEN a ELSE b

\* =================================================================
\*                          WebConverter
\* =================================================================

Formats == {"excel", "word"}

\* The files the user can pick: only name is read; two of them share a name.
Files ==
  { [name |-> <<"r", ".", "p", "d", "f">>, content |-> "bytesA"],
    [name |-> <<"r", ".", "p", "d", "f">>, content |-> "bytesB"],
    [name |-> <<"a", ".", "p", "d", "f", "b", ".", "p", "d", "f">>, content |-> "bytesA"] }

\* The values new Date().toLocaleString() can give.
Timestamps == {"t1", "t2"}

telemetryLabels ==
  << "LOCAL_BUFFER_SCANNING", "PARSING_FILE_HEADER", "RECONSTRUCTING_SCHEMA",
     "OPTIMIZING_DELIMITERS", "STRIPPING_INTERACTIVE_LAYERS",
     "SERIALIZING_OUTPUT_BUFFER" >>

\* prog += prog < 40 ? 4.5 : (prog < 85 ? 1.2 : 0.5), in tenths
FastLimit == 400
MidLimit == 850
FastStep == 45
MidStep == 12
SlowStep == 5
Complete == 1000

\* Mutant of ProgressStep: the last easing tier is missing.
ProgressStep_TwoTier(prog) ==
  IF prog < FastLimit THEN FastStep ELSE MidStep

ProgressStep(prog) ==
  IF prog < FastLimit THEN FastStep ELSE IF prog < MidLimit THEN MidStep ELSE SlowStep

\* The world an event handler runs in, read from the variables.
W ==
  [ mounted |-> mounted, format |-> format, file |-> file, loading |-> loading,
    downloadReady |-> downloadReady, error |-> error,
    statusMessage |-> statusMessage, telemetry |-> telemetry,
    simProgress |-> simProgress, resultBlob |-> resultBlob,
    progressTimer |-> progressTimer, telemetryTimer |-> telemetryTimer,
    progIntervals |-> progIntervals, telIntervals |-> telIntervals,
    nextTimerId |-> nextTimerId, errorSignal |-> errorSignal,
    downloads |-> downloads ]

\* The world a handler leaves becomes the next state.
Commit(w) ==
  /\ mounted' = w.mounted
  /\ format' = w.format
  /\ file' = w.file
  /\ loading' = w.loading
  /\ downloadReady' = w.downloadReady
  /\ error' = w.error
  /\ statusMessage' = w.statusMessage
  /\ telemetry' = w.telemetry
  /\ simProgress' = w.simProgress
  /\ resultBlob' = w.resultBlob
  /\ progressTimer' = w.progressTimer
  /\ telemetryTimer' = w.telemetryTimer
  /\ progIntervals' = w.progIntervals
  /\ telIntervals' = w.telIntervals
  /\ nextTimerId' = w.nextTimerId
  /\ errorSignal' = w.errorSignal
  /\ downloads' = w.downloads

\* ---- state setters (dropped once the component is unmounted)
setFile(w, v) == IF w.mounted THEN [w EXCEPT !.file = v] ELSE w
setLoading(w, v) == IF w.mounted THEN [w EXCEPT !.loading = v] ELSE w
setDownloadReady(w, v) == IF w.mounted THEN [w EXCEPT !.downloadReady = v] ELSE w
setError(w, v) == IF w.mounted THEN [w EXCEPT !.error = v] ELSE w
setStatusMessage(w, v) == IF w.mounted THEN [w EXCEPT !.statusMessage = v] ELSE w
setTelemetry(w, v) == IF w.mounted THEN [w EXCEPT !.telemetry = v] ELSE w
setSimProgress(w, v) == IF w.mounted THEN [w EXCEPT !.simProgress = v] ELSE w
setResultBlob(w, v) == IF w.mounted THEN [w EXCEPT !.resultBlob = v] ELSE w

\* if (onErrorUpdate) onErrorUpdate(v): the host receives v
onErrorUpdate(w, v) == [w EXCEPT !.errorSignal = Some(v)]

\* clearInterval(id)
clearInterval(w, id) ==
  [w EXCEPT !.progIntervals = {t \in @ : t.id # id},
            !.telIntervals = {t \in @ : t.id # id}]

\* Mutant of cleanupTimers: the telemetry timer is left running.
cleanupTimers_ProgressOnly(w) ==
  IF w.progressTimer # None THEN clearInterval(w, w.progressTimer[1]) ELSE w

cleanupTimers(w) ==
  LET w1 == IF w.progressTimer # None THEN clearInterval(w, w.progressTimer[1]) ELSE w
  IN IF w1.telemetryTimer # None THEN clearInterval(w1, w1.telemetryTimer[1]) ELSE w1

\* `${originalName.replace('.pdf', '')}_v42.${extension}`
DownloadName(originalName, fmt) ==
  ReplaceFirst(originalName, <<".", "p", "d", "f">>, <<>>)
    \o <<"_", "v", "4", "2", ".">>
    \o (IF fmt = "excel" THEN <<"x", "l", "s", "x">> ELSE <<"t", "x", "t">>)

\* fmt is the format of the render whose closure runs.
triggerDownload(w, blob, originalName, fmt) ==
  [w EXCEPT !.downloads =
     Append(@, [name |-> DownloadName(originalName, fmt), payload |-> blob])]

StatusText ==
  <<"S", "y", "s", "t", "e", "m", " ", "s", "t", "a", "t", "u", "s", ":", " ",
    "C", "l", "o", "u", "d", " ", "e", "n", "g", "i", "n", "e", " ",
    "o", "f", "f", "l", "i", "n", "e", ".", " ", "L", "o", "c", "a", "l", " ",
    "w", "o", "r", "d", " ", "e", "x", "t", "r", "a", "c", "t", "i", "o", "n", " ",
    "a", "c", "t", "i", "v", "e", ".">>

ExcelBlob ==
  LET words == SelectSeq(SplitOnSpace(StatusText, <<>>), LAMBDA x : Len(x) > 0)
      colWidths == [i \in 1..Len(words) |-> [wch |-> Len(words[i]) + 2]]
  IN [ type |-> "application/vnd.openxmlformats-officedocument.spreadsheetml.sheet",
       sheets |-> << [name |-> "Word Grid", rows |-> <<words>>, cols |-> colWidths] >>,
       text |-> <<>> ]

\* Mutant of TextBlob: the report embeds the bytes of the selected file.
TextBlob_WithContent(selectedFile, timestamp) ==
  [ type |-> "text/plain",
    sheets |-> <<>>,
    text |-> <<"LOCAL_EXTRACTION_REPORT\nSource: ">> \o selectedFile.name
               \o <<"\nStatus: Gemini AI Removed\nTimestamp: ", timestamp>>
               \o <<selectedFile.content>> ]

TextBlob(selectedFile, timestamp) ==
  [ type |-> "text/plain",
    sheets |-> <<>>,
    text |-> <<"LOCAL_EXTRACTION_REPORT\nSource: ">> \o selectedFile.name
               \o <<"\nStatus: Gemini AI Removed\nTimestamp: ", timestamp>> ]

\* Mutant of finishConversion: the result is downloaded but never stored.
finishConversion_NoBlob(w, selectedFile, fmt, timestamp) ==
  LET w1 == cleanupTimers(w)
      w2 == setStatusMessage(w1, "ASSEMBLING_PAYLOAD")
      blob == IF fmt = "excel" THEN ExcelBlob ELSE TextBlob(selectedFile, timestamp)
      w4 == setDownloadReady(w2, TRUE)
      w5 == setLoading(w4, FALSE)
      w6 == setStatusMessage(w5, "EXTRACTION_SUCCESS")
  IN triggerDownload(w6, blob, selectedFile.name, fmt)

\* Mutant of finishConversion: the download is triggered twice.
finishConversion_DownloadsTwice(w, selectedFile, fmt, timestamp) ==
  LET w1 == cleanupTimers(w)
      w2 == setStatusMessage(w1, "ASSEMBLING_PAYLOAD")
      blob == IF fmt = "excel" THEN ExcelBlob ELSE TextBlob(selectedFile, timestamp)
      w3 == setResultBlob(w2, Some(blob))
      w4 == setDownloadReady(w3, TRUE)
      w5 == setLoading(w4, FALSE)
      w6 == setStatusMessage(w5, "EXTRACTION_SUCCESS")
      w7 == triggerDownload(w6, blob, selectedFile.name, fmt)
  IN triggerDownload(w7, blob, selectedFile.name, fmt)

\* fmt is the format captured by the closure that runs; timestamp is the
\* value of new Date().toLocaleString().
finishConversion(w, selectedFile, fmt, timestamp) ==
  LET w1 == cleanupTimers(w)
      w2 == setStatusMessage(w1, "ASSEMBLING_PAYLOAD")
      blob == IF fmt = "excel" THEN ExcelBlob ELSE TextBlob(selectedFile, timestamp)
      w3 == setResultBlob(w2, Some(blob))
      w4 == setDownloadReady(w3, TRUE)
      w5 == setLoading(w4, FALSE)
      w6 == setStatusMessage(w5, "EXTRACTION_SUCCESS")
  IN triggerDownload(w6, blob, selectedFile.name, fmt)

\* Mutant of progressCallback: the run is finished at the last easing tier
\* (prog >= 85) instead of at 100.
progressCallback_EarlyFinish(w, t, timestamp) ==
  LET prog == t.prog + ProgressStep(t.prog)
      w1 == [w EXCEPT !.progIntervals = (@ \ {t}) \cup {[t EXCEPT !.prog = prog]}]
      w2 == setSimProgress(w1, Min(prog, Complete))
  IN IF prog >= MidLimit
     THEN finishConversion(w2, t.selectedFile, t.format, timestamp)
     ELSE w2

\* One run of the progress interval callback t.
progressCallback(w, t, timestamp) ==
  LET prog == t.prog + ProgressStep(t.prog)
      w1 == [w EXCEPT !.progIntervals = (@ \ {t}) \cup {[t EXCEPT !.prog = prog]}]
      w2 == setSimProgress(w1, Min(prog, Complete))
  IN IF prog >= Complete
     THEN finishConversion(w2, t.selectedFile, t.format, timestamp)
     ELSE w2

\* Mutant of telemetryCallback: the tick also writes the progress.
telemetryCallback_WritesProgress(w, t) ==
  LET w1 == setTelemetry(w, telemetryLabels[(t.telIdx % Len(telemetryLabels)) + 1])
      w2 == setSimProgress(w1, t.telIdx)
  IN [w2 EXCEPT !.telIntervals = (@ \ {t}) \cup {[t EXCEPT !.telIdx = @ + 1]}]

\* Mutant of telemetryCallback: the index is advanced before it is used.
telemetryCallback_PreIncrement(w, t) ==
  LET w1 == setTelemetry(w, telemetryLabels[((t.telIdx + 1) % Len(telemetryLabels)) + 1])
  IN [w1 EXCEPT !.telIntervals = (@ \ {t}) \cup {[t EXCEPT !.telIdx = @ + 1]}]

\* One run of the telemetry interval callback t.
telemetryCallback(w, t) ==
  LET w1 == setTelemetry(w, telemetryLabels[(t.telIdx % Len(telemetryLabels)) + 1])
  IN [w1 EXCEPT !.telIntervals = (@ \ {t}) \cup {[t EXCEPT !.telIdx = @ + 1]}]

\* Mutant of startConversion: the start of a run is reported as an error.
startConversion_ReportsError(w, selectedFile) ==
  LET w1 == setLoading(w, TRUE)
      w2 == setError(w1, Some(<<"E", "1">>))
      w3 == onErrorUpdate(w2, Some(<<"E", "1">>))
      w4 == setDownloadReady(w3, FALSE)
      w5 == setStatusMessage(w4, "UPLOADING_STREAM")
      pid == w5.nextTimerId
      w6 == [w5 EXCEPT !.progressTimer = Some(pid),
                       !.progIntervals = @ \cup
                          {[id |-> pid, prog |-> 0, selectedFile |-> selectedFile,
                            format |-> w.format]},
                       !.nextTimerId = pid + 1]
      tid == w6.nextTimerId
  IN [w6 EXCEPT !.telemetryTimer = Some(tid),
                !.telIntervals = @ \cup {[id |-> tid, telIdx |-> 0]},
                !.nextTimerId = tid + 1]

startConversion(w, selectedFile) ==
  LET w1 == setLoading(w, TRUE)
      w2 == setError(w1, None)
      w3 == onErrorUpdate(w2, None)
      w4 == setDownloadReady(w3, FALSE)
      w5 == setStatusMessage(w4, "UPLOADING_STREAM")
      pid == w5.nextTimerId
      w6 == [w5 EXCEPT !.progressTimer = Some(pid),
                       !.progIntervals = @ \cup
                          {[id |-> pid, prog |-> 0, selectedFile |-> selectedFile,
                            format |-> w.format]},
                       !.nextTimerId = pid + 1]
      tid == w6.nextTimerId
  IN [w6 EXCEPT !.telemetryTimer = Some(tid),
                !.telIntervals = @ \cup {[id |-> tid, telIdx |-> 0]},
                !.nextTimerId = tid + 1]

handleFileChange(w, selectedFile) ==
  LET w1 == setFile(w, Some(selectedFile))
      w2 == setDownloadReady(w1, FALSE)
      w3 == setError(w2, None)
      w4 == onErrorUpdate(w3, None)
      w5 == setStatusMessage(w4, "")
      w6 == setResultBlob(w5, None)
      w7 == setSimProgress(w6, 0)
  IN startConversion(w7, selectedFile)

\* Mutant of resetTask: the result blob is not cleared.
resetTask_KeepsBlob(w) ==
  LET w1 == setFile(w, None)
      w2 == setDownloadReady(w1, FALSE)
      w4 == setStatusMessage(w2, "")
      w5 == setSimProgress(w4, 0)
      w6 == setTelemetry(w5, "SYSTEM_IDLE")
      w7 == setError(w6, None)
  IN onErrorUpdate(w7, None)

resetTask(w) ==
  LET w1 == setFile(w, None)
      w2 == setDownloadReady(w1, FALSE)
      w3 == setResultBlob(w2, None)
      w4 == setStatusMessage(w3, "")
      w5 == setSimProgress(w4, 0)
      w6 == setTelemetry(w5, "SYSTEM_IDLE")
      w7 == setError(w6, None)
  IN onErrorUpdate(w7, None)

\* Mutant of reDownloadClick: the blob is released after the download.
reDownloadClick_ReleasesBlob(w) ==
  IF w.resultBlob # None /\ w.file # None
  THEN setResultBlob(triggerDownload(w, w.resultBlob[1], w.file[1].name, w.format), None)
  ELSE w

\* onClick of RE-DOWNLOAD: resultBlob && file && triggerDownload(resultBlob, file.name)
reDownloadClick(w) ==
  IF w.resultBlob # None /\ w.file # None
  THEN triggerDownload(w, w.resultBlob[1], w.file[1].name, w.format)
  ELSE w

\* ---- what the render shows
\* Mutant of FileInputRendered: the file input is shown in every view.
FileInputRendered_Always == mounted

FileInputRendered == mounted /\ ~loading /\ ~downloadReady
ProgressViewRendered == mounted /\ loading
SuccessViewRendered == mounted /\ ~(~loading /\ ~downloadReady) /\ ~loading
ErrorOverlayRendered == mounted /\ error # None
FormatButtonsEnabled == mounted /\ ~loading

\* ---- actions
\* Two timers are started per run: nextTimerId counts the runs.
RunsStarted == (nextTimerId - 1) \div 2

SelectFile(f) ==
  /\ FileInputRendered
  /\ RunsStarted < MaxRuns
  /\ Len(downloads) < MaxDownloads
  /\ Commit(handleFileChange(W, f))
  /\ UNCHANGED aiVars

ProgressTick ==
  \E t \in progIntervals, ts \in Timestamps :
    /\ Commit(progressCallback(W, t, ts))
    /\ UNCHANGED aiVars

TelemetryTick ==
  \E t \in telIntervals :
    /\ t.telIdx < MaxTelTicks
    /\ Commit(telemetryCallback(W, t))
    /\ UNCHANGED aiVars

ReDownload ==
  /\ SuccessViewRendered
  /\ Len(downloads) < MaxDownloads
  /\ Commit(reDownloadClick(W))
  /\ UNCHANGED aiVars

NewTask ==
  /\ SuccessViewRendered
  /\ Commit(resetTask(W))
  /\ UNCHANGED aiVars

SetFormat(f) ==
  /\ FormatButtonsEnabled
  /\ Commit([W EXCEPT !.format = f])
  /\ UNCHANGED aiVars

\* The state of a freshly constructed component (lines 14-24).
InitialState(w) ==
  [w EXCEPT !.file = None, !.loading = FALSE, !.downloadReady = FALSE,
            !.error = None, !.statusMessage = "", !.telemetry = "SYSTEM_IDLE",
            !.simProgress = 0, !.resultBlob = None]

\* The host removes the component. React discards the state of an unmounted
\* component (the state variables then hold their initial values and no setter
\* changes them); the refs stay reachable from the timer closures, and as the
\* component registers no effect cleanup its intervals stay scheduled.
Unmount ==
  /\ mounted
  /\ Commit([InitialState(W) EXCEPT !.mounted = FALSE])
  /\ UNCHANGED aiVars

\* =================================================================
\*                          AIAssistant
\* =================================================================

UpperCase ==
  <<"A", "B", "C", "D", "E", "F", "G", "H", "I", "J", "K", "L", "M",
    "N", "O", "P", "Q", "R", "S", "T", "U", "V", "W", "X", "Y", "Z">>
LowerCase ==
  <<"a", "b", "c", "d", "e", "f", "g", "h", "i", "j", "k", "l", "m",
    "n", "o", "p", "q", "r", "s", "t", "u", "v", "w", "x", "y", "z">>

\* String.prototype.toLowerCase
ToLowerCase(s) ==
  [i \in 1..Len(s) |->
     IF \E k \in 1..Len(UpperCase) : UpperCase[k] = s[i]
     THEN LowerCase[CHOOSE k \in 1..Len(UpperCase) : UpperCase[k] = s[i]]
     ELSE s[i]]

\* String.prototype.includes
Includes(s, pat) ==
  \E i \in 0..(Len(s) - Len(pat)) : SubSeq(s, i + 1, i + Len(pat)) = pat

RECURSIVE TrimStart(_)
TrimStart(s) == IF s # <<>> /\ IsSpace(Head(s)) THEN TrimStart(Tail(s)) ELSE s

RECURSIVE TrimEnd(_)
TrimEnd(s) ==
  IF s # <<>> /\ IsSpace(s[Len(s)]) THEN TrimEnd(SubSeq(s, 1, Len(s) - 1)) ELSE s

\* String.prototype.trim
Trim(s) == TrimEnd(TrimStart(s))

RemediationReply ==
  <<"I recommend verifying the PDF structure. If the extraction fails, try flattening the PDF or ensuring it's not password protected.">>
FormatReply ==
  <<"The system uses high-fidelity extraction for both formats. Excel is optimized for tabular data, while Word preserves layout structures.">>
UsageReply ==
  <<"Upload your document in the Processing Unit, select your target format (.XLSX or .DOCX), and initiate the conversion.">>
GenericReply ==
  <<"Command received. The system is operating within normal parameters. Please proceed with your document conversion.">>

\* Mutant of getStaticResponse: the query is matched without lower-casing.
getStaticResponse_CaseSensitive(query) ==
  LET q == query
  IN IF Includes(q, <<"e", "r", "r", "o", "r">>) \/ Includes(q, <<"f", "a", "i", "l">>)
     THEN RemediationReply
     ELSE IF Includes(q, <<"e", "x", "c", "e", "l">>) \/ Includes(q, <<"w", "o", "r", "d">>)
     THEN FormatReply
     ELSE IF Includes(q, <<"h", "o", "w">>) \/ Includes(q, <<"h", "e", "l", "p">>)
     THEN UsageReply
     ELSE GenericReply

getStaticResponse(query) ==
  LET q == ToLowerCase(query)
  IN IF Includes(q, <<"e", "r", "r", "o", "r">>) \/ Includes(q, <<"f", "a", "i", "l">>)
     THEN RemediationReply
     ELSE IF Includes(q, <<"e", "x", "c", "e", "l">>) \/ Includes(q, <<"w", "o", "r", "d">>)
     THEN FormatReply
     ELSE IF Includes(q, <<"h", "o", "w">>) \/ Includes(q, <<"h", "e", "l", "p">>)
     THEN UsageReply
     ELSE GenericReply

Greeting ==
  [ role |-> "ai",
    text |-> <<"System Guide active. I can assist with your document conversion parameters.">> ]

\* The alert text embeds the signal value e.
AlertText(e) ==
  <<"SYSTEM_ALERT: Detected an extraction anomaly. Status: \"">> \o e
    \o <<"\".\n\nSuggested Protocol:\n1. Check document integrity.\n2. Verify format compatibility.\n3. Retry the operation.">>

\* The values the host can pass as errorState: null, the empty string, two
\* error strings.
ErrorStrings == { <<"E", "1">>, <<"E", "2">> }
ErrorProps == {None, Some(<<>>)} \cup {Some(e) : e \in ErrorStrings}

\* What the user can type into the input field.
Inputs ==
  { <<>>,
    <<" ", " ">>,
    <<" ", "F", "a", "i", "l", " ">>,
    <<"w", "o", "r", "d", " ", "h", "e", "l", "p">>,
    <<"h", "o", "w">>,
    <<"h", "e", "l", "l", "o">>,
    <<"E", "x", "c", "e", "l", " ", "E", "R", "R", "O", "R">> }

\* JavaScript truthiness of a string | null
Truthy(v) == v # None /\ v[1] # <<>>

IsAlert(m) == m.role = "ai" /\ \E e \in ErrorStrings : m.text = AlertText(e)
Alerts(msgs) == SelectSeq(msgs, IsAlert)

\* The world of the assistant's handlers.
A ==
  [ errorState |-> errorState, messages |-> messages, input |-> input,
    loading |-> aiLoading, errorAcknowledged |-> errorAcknowledged,
    replyTimeouts |-> replyTimeouts ]

CommitAi(a) ==
  /\ errorState' = a.errorState
  /\ messages' = a.messages
  /\ input' = a.input
  /\ aiLoading' = a.loading
  /\ errorAcknowledged' = a.errorAcknowledged
  /\ replyTimeouts' = a.replyTimeouts

\* Mutant of errorEffect: the ref is written before it is compared.
errorEffect_AckFirst(a) ==
  LET a1 == [a EXCEPT !.errorAcknowledged = a.errorState]
  IN IF Truthy(a1.errorState) /\ a1.errorState # a1.errorAcknowledged
     THEN [a1 EXCEPT !.messages =
             Append(@, [role |-> "ai", text |-> AlertText(a1.errorState[1])])]
     ELSE a1

\* Mutant of errorEffect: the acknowledged value is never recorded.
errorEffect_NoRecord(a) ==
  IF Truthy(a.errorState) /\ a.errorState # a.errorAcknowledged
  THEN [a EXCEPT !.messages =
          Append(@, [role |-> "ai", text |-> AlertText(a.errorState[1])])]
  ELSE a

\* The body of the effect on [errorState].
errorEffect(a) ==
  IF Truthy(a.errorState) /\ a.errorState # a.errorAcknowledged
  THEN [a EXCEPT !.errorAcknowledged = a.errorState,
                 !.messages = Append(@, [role |-> "ai", text |-> AlertText(a.errorState[1])])]
  ELSE a

\* A render with errorState = v: the effect runs when the dependency changed.
renderWithError(a, v) ==
  IF v # a.errorState THEN errorEffect([a EXCEPT !.errorState = v]) ELSE a

\* Mutant of handleSubmit: a submission is accepted while a reply is pending.
handleSubmit_NoPendingGuard(a) ==
  IF Trim(a.input) = <<>>
  THEN a
  ELSE LET userMessage == Trim(a.input)
       IN [a EXCEPT !.input = <<>>,
                    !.messages = Append(@, [role |-> "user", text |-> userMessage]),
                    !.loading = TRUE,
                    !.replyTimeouts = @ \cup {[userMessage |-> userMessage]}]

handleSubmit(a) ==
  IF Trim(a.input) = <<>> \/ a.loading
  THEN a
  ELSE LET userMessage == Trim(a.input)
       IN [a EXCEPT !.input = <<>>,
                    !.messages = Append(@, [role |-> "user", text |-> userMessage]),
                    !.loading = TRUE,
                    !.replyTimeouts = @ \cup {[userMessage |-> userMessage]}]

\* Mutant of replyCallback: the reply takes the place of the last message.
replyCallback_ReplacesLast(a, t) ==
  [a EXCEPT !.replyTimeouts = @ \ {t},
            !.messages = Append(SubSeq(@, 1, Len(@) - 1),
                                [role |-> "ai", text |-> getStaticResponse(t.userMessage)]),
            !.loading = FALSE]

\* The setTimeout callback t.
replyCallback(a, t) ==
  [a EXCEPT !.replyTimeouts = @ \ {t},
            !.messages = Append(@, [role |-> "ai", text |-> getStaticResponse(t.userMessage)]),
            !.loading = FALSE]

\* ---- actions
\* Room left in the transcript, keeping one place for each pending reply.
Room == MaxMessages - Len(messages) - Cardinality(replyTimeouts)

TypeInput(t) ==
  /\ t # input
  /\ CommitAi([A EXCEPT !.input = t])
  /\ UNCHANGED <<deliveries, convVars>>

Submit ==
  /\ Room >= 2
  /\ CommitAi(handleSubmit(A))
  /\ UNCHANGED <<deliveries, convVars>>

ReplyTimeout ==
  \E t \in replyTimeouts :
    /\ CommitAi(replyCallback(A, t))
    /\ UNCHANGED <<deliveries, convVars>>

Deliver(v) ==
  /\ Room >= 1
  /\ Len(deliveries) < MaxDeliveries
  /\ CommitAi(renderWithError(A, v))
  /\ deliveries' = Append(deliveries,
                          [value |-> v, alerts |-> Alerts(renderWithError(A, v).messages)])
  /\ UNCHANGED convVars

\* The first render, with errorState = e: every effect runs once.
AiMount(e) ==
  LET a == errorEffect([ errorState |-> e, messages |-> <<Greeting>>, input |-> <<>>,
                         loading |-> FALSE, errorAcknowledged |-> None,
                         replyTimeouts |-> {} ])
  IN /\ errorState = a.errorState
     /\ messages = a.messages
     /\ input = a.input
     /\ aiLoading = a.loading
     /\ errorAcknowledged = a.errorAcknowledged
     /\ replyTimeouts = a.replyTimeouts
     /\ deliveries = <<[value |-> e, alerts |-> Alerts(a.messages)]>>

ConvInit ==
  /\ mounted = TRUE
  /\ format \in Formats
  /\ file = None
  /\ loading = FALSE
  /\ downloadReady = FALSE
  /\ error = None
  /\ statusMessage = ""
  /\ telemetry = "SYSTEM_IDLE"
  /\ simProgress = 0
  /\ resultBlob = None
  /\ progressTimer = None
  /\ telemetryTimer = None
  /\ progIntervals = {}
  /\ telIntervals = {}
  /\ nextTimerId = 1
  /\ errorSignal = None
  /\ downloads = <<>>

Init == ConvInit /\ AiMount(None)

InitAI == ConvInit /\ \E e \in ErrorProps : AiMount(e)

Next ==
  \/ \E f \in Files : SelectFile(f)
  \/ ProgressTick
  \/ TelemetryTick
  \/ ReDownload
  \/ NewTask
  \/ \E f \in Formats : SetFormat(f)
  \/ Unmount

NextAI ==
  \/ \E t \in Inputs : TypeInput(t)
  \/ Submit
  \/ ReplyTimeout
  \/ \E v \in ErrorProps : Deliver(v)

\* The conversion panel alone, and the assistant panel alone under every
\* sequence of errorState values.
Spec == Init /\ [][Next]_vars
SpecAI == InitAI /\ [][NextAI]_vars

\* =================================================================
\*                            Properties
\* =================================================================

Succeeded == downloadReady /\ ~loading
TaskFields ==
  <<file, loading, downloadReady, error, statusMessage, telemetry, simProgress,
    resultBlob>>
Timers == <<progressTimer, telemetryTimer, progIntervals, telIntervals, nextTimerId>>
TimerIds(S) == {t.id : t \in S}

\* C1: over the progress ticks of a run the displayed progress never decreases
\* and stays within [0,100]; the task is Succeeded (downloadReady, not loading)
\* exactly in the states whose progress is 100, so it enters Succeeded on the
\* tick on which progress first reaches 100 and on no earlier tick.
C1_ProgressMonotoneUntilSuccess ==
  /\ [](simProgress \in 0..Complete /\ (Succeeded <=> simProgress = Complete))
  /\ [][(ProgressTick \/ (loading /\ loading')) => simProgress' >= simProgress]_vars
  /\ [][(~Succeeded /\ Succeeded') =>
          (ProgressTick /\ simProgress < Complete /\ simProgress' = Complete)]_vars

C1_Witness ==
  /\ mounted /\ Succeeded /\ simProgress = Complete
  /\ RunsStarted = 2 /\ Len(downloads) = 2

\* C2: while the panel is mounted exactly one of the visual states idle,
\* running, succeeded, errored is active, and resultBlob is non-null exactly
\* in the succeeded state.
ActiveVisualStates ==
  {s \in {"idle", "running", "succeeded", "errored"} :
     CASE s = "idle" -> FileInputRendered
       [] s = "running" -> ProgressViewRendered
       [] s = "succeeded" -> SuccessViewRendered
       [] s = "errored" -> ErrorOverlayRendered}

C2_OneVisualStateAndBlobIffSucceeded ==
  /\ mounted => Cardinality(ActiveVisualStates) = 1
  /\ resultBlob # None <=> SuccessViewRendered

C2_Witness ==
  /\ ActiveVisualStates = {"succeeded"} /\ resultBlob # None
  /\ RunsStarted = 2 /\ Len(downloads) = 3

\* C3: every exit from a run other than completion (reset, selection of a new
\* file, teardown of the component) cancels both outstanding timers: no timer
\* that was live before the exit is live after it.
RunExit == Unmount \/ NewTask \/ \E f \in Files : SelectFile(f)

C3_ExitCancelsTimers ==
  [][RunExit =>
       /\ TimerIds(progIntervals) \cap TimerIds(progIntervals') = {}
       /\ TimerIds(telIntervals) \cap TimerIds(telIntervals') = {}]_vars

\* C4: the tick on which progress reaches 100 cancels the progress timer and
\* the telemetry timer together: no progress interval outlives its completing
\* tick, no telemetry interval outlives its progress interval, and in the
\* Succeeded state no timer is live, so no callback can change progress, the
\* telemetry label, the status message or the result.
C4_CompletionCancelsBothTimers ==
  /\ \A t \in progIntervals : t.prog < Complete
  /\ telIntervals # {} => progIntervals # {}
  /\ Succeeded => progIntervals = {} /\ telIntervals = {}

C4_Witness ==
  /\ mounted /\ Succeeded /\ telemetry = telemetryLabels[1]
  /\ progressTimer # None /\ telemetryTimer # None
  /\ progIntervals = {} /\ telIntervals = {}

\* C5: while a run is Running a file selection changes nothing: the only steps
\* that change a task field or a timer are the two timer callbacks and the
\* teardown, and at most one progress timer and one telemetry timer are live.
C5_NoSelectionWhileRunning ==
  /\ [](Cardinality(progIntervals) <= 1 /\ Cardinality(telIntervals) <= 1)
  /\ [][(loading /\ ~(ProgressTick \/ TelemetryTick \/ Unmount)) =>
          UNCHANGED <<TaskFields, Timers, errorSignal, downloads>>]_vars

C5_Witness ==
  /\ ProgressViewRendered /\ ~FileInputRendered /\ simProgress > FastLimit
  /\ RunsStarted = 2
  /\ Cardinality(progIntervals) = 1 /\ Cardinality(telIntervals) = 1

\* C6: after reset every task field has its Idle default and the last value
\* forwarded to the host through onErrorUpdate is null.
C6_ResetIsTotal ==
  [][NewTask =>
       /\ file' = None /\ loading' = FALSE /\ downloadReady' = FALSE
       /\ simProgress' = 0 /\ telemetry' = "SYSTEM_IDLE" /\ statusMessage' = ""
       /\ resultBlob' = None /\ error' = None
       /\ errorSignal' = Some(None)]_vars

C6_Witness ==
  /\ mounted /\ ActiveVisualStates = {"idle"} /\ file = None /\ resultBlob = None
  /\ telemetry = "SYSTEM_IDLE" /\ errorSignal = Some(None)
  /\ Len(downloads) = 2 /\ RunsStarted = 1

\* C7: in the Succeeded state a re-download adds exactly one download side
\* effect, which carries resultBlob, and changes no task field: the state stays
\* Succeeded with the same resultBlob and progress.
C7_ReDownloadOnlyDownloads ==
  [][ReDownload =>
       /\ Len(downloads') = Len(downloads) + 1
       /\ SubSeq(downloads', 1, Len(downloads)) = downloads
       /\ Some(downloads'[Len(downloads')].payload) = resultBlob
       /\ UNCHANGED <<TaskFields, Timers, errorSignal>>
       /\ mounted' /\ Succeeded']_vars

C7_Witness ==
  /\ mounted /\ Succeeded /\ RunsStarted = 1 /\ Len(downloads) = 3
  /\ \A i \in 1..3 : Some(downloads[i].payload) = resultBlob

\* C9: rendering the same non-empty error value twice in a row adds no second
\* alert (the transcript's alerts end with the one alert for that value), and
\* rendering a non-empty value after a different non-empty value appends one
\* alert that embeds the new value.
C9_SameValueOnceDistinctValuesTwice ==
  \A i \in 2..Len(deliveries) :
    LET prev == deliveries[i - 1]
        cur == deliveries[i]
        alert == [role |-> "ai", text |-> AlertText(cur.value[1])]
    IN Truthy(cur.value) /\ Truthy(prev.value) =>
         IF cur.value = prev.value
         THEN /\ cur.alerts = prev.alerts
              /\ cur.alerts # <<>> /\ cur.alerts[Len(cur.alerts)] = alert
         ELSE cur.alerts = Append(prev.alerts, alert)

C9_Witness ==
  /\ Len(deliveries) = 3
  /\ Truthy(deliveries[1].value) /\ deliveries[2].value = deliveries[1].value
  /\ Truthy(deliveries[3].value) /\ deliveries[3].value # deliveries[2].value
  /\ Len(Alerts(messages)) = 2

\* C10 as claimed: the transcript holds at most one alert message per distinct
\* non-empty error value.
C10_AtMostOneAlertPerValue ==
  \A e \in ErrorStrings :
    Cardinality({i \in DOMAIN messages :
                   messages[i] = [role |-> "ai", text |-> AlertText(e)]}) <= 1

\* C10 as amended: an alert is appended only for a value that differs from the
\* value alerted last, so two alerts for the same value are always separated
\* by an alert for another value.
C10_NoAlertRepeatsTheLastAlert ==
  LET al == Alerts(messages)
  IN \A i \in 1..(Len(al) - 1) : al[i] # al[i + 1]

C10_Witness ==
  /\ Len(deliveries) = 3
  /\ Truthy(deliveries[1].value) /\ ~Truthy(deliveries[2].value)
  /\ deliveries[3].value = deliveries[1].value
  /\ Len(Alerts(messages)) = 1

UserMessages(msgs) == SelectSeq(msgs, LAMBDA m : m.role = "user")
Replies(msgs) == SelectSeq(msgs, LAMBDA m : m.role = "ai" /\ m # Greeting /\ ~IsAlert(m))
AllSpaces(s) == \A i \in 1..Len(s) : IsSpace(s[i])
\* t is s without its leading and trailing white space, and is not empty.
IsTrimOf(t, s) ==
  /\ t # <<>> /\ ~IsSpace(t[1]) /\ ~IsSpace(t[Len(t)])
  /\ \E i \in 0..(Len(s) - Len(t)) :
       /\ SubSeq(s, i + 1, i + Len(t)) = t
       /\ AllSpaces(SubSeq(s, 1, i))
       /\ AllSpaces(SubSeq(s, i + Len(t) + 1, Len(s)))

\* C11: a submission is ignored (transcript, pending flag and timers unchanged)
\* when the text is empty or white space only or a reply is pending; otherwise
\* it appends one user message with the trimmed text and sets pending for that
\* message. The delayed callback appends exactly one assistant reply and clears
\* pending; while pending, that callback is scheduled (so the reply is still to
\* come). At most one reply is outstanding, and the replies plus the
\* outstanding one number the user messages.
C11_SubmitAndSingleReply ==
  /\ [](/\ Cardinality(replyTimeouts) <= 1
        /\ aiLoading <=> replyTimeouts # {}
        /\ Len(Replies(messages)) + Cardinality(replyTimeouts)
             = Len(UserMessages(messages))
        /\ \A t \in replyTimeouts :
             LET us == UserMessages(messages) IN us[Len(us)].text = t.userMessage)
  /\ [][Submit =>
          IF AllSpaces(input) \/ aiLoading
          THEN UNCHANGED <<messages, aiLoading, replyTimeouts, input>>
          ELSE /\ Len(messages') = Len(messages) + 1
               /\ SubSeq(messages', 1, Len(messages)) = messages
               /\ messages'[Len(messages')].role = "user"
               /\ IsTrimOf(messages'[Len(messages')].text, input)
               /\ aiLoading'
               /\ replyTimeouts' = {[userMessage |-> messages'[Len(messages')].text]}]_vars
  /\ [][ReplyTimeout =>
          /\ Len(messages') = Len(messages) + 1
          /\ SubSeq(messages', 1, Len(messages)) = messages
          /\ Len(Replies(messages')) = Len(Replies(messages)) + 1
          /\ ~aiLoading' /\ replyTimeouts' = {}]_vars

C11_Witness ==
  /\ Len(UserMessages(messages)) = 2 /\ Len(Replies(messages)) = 2
  /\ UserMessages(messages)[1].text = <<"F", "a", "i", "l">>
  /\ ~aiLoading /\ input = <<" ", " ">>

\* ---- C12
\* Two characters are the same letter up to case.
SameLetter(c, d) ==
  c = d \/ \E k \in 1..Len(UpperCase) : {c, d} = {UpperCase[k], LowerCase[k]}

\* text contains the keyword kw at some position, ignoring case.
ContainsCI(text, kw) ==
  \E i \in 0..(Len(text) - Len(kw)) :
    \A j \in 1..Len(kw) : SameLetter(text[i + j], kw[j])

\* The reply the ordered keyword groups prescribe for text.
ClaimedReply(text) ==
  CASE ContainsCI(text, <<"e", "r", "r", "o", "r">>) \/ ContainsCI(text, <<"f", "a", "i", "l">>)
         -> RemediationReply
    [] OTHER ->
  CASE ContainsCI(text, <<"e", "x", "c", "e", "l">>) \/ ContainsCI(text, <<"w", "o", "r", "d">>)
         -> FormatReply
    [] OTHER ->
  CASE ContainsCI(text, <<"h", "o", "w">>) \/ ContainsCI(text, <<"h", "e", "l", "p">>)
         -> UsageReply
    [] OTHER -> GenericReply

\* C12: the reply to a user message is decided by the text alone, ignoring
\* case, by the first keyword group that matches: error/fail give remediation,
\* else excel/word give the format explanation, else how/help give usage, else
\* the generic acknowledgment. It holds for every reply in every transcript,
\* whatever alerts, pending flag or error signal surround it.
C12_ReplyIsFirstMatchingGroup ==
  LET us == UserMessages(messages)
      rs == Replies(messages)
  IN /\ Len(rs) <= Len(us)
     /\ \A k \in 1..Len(rs) : rs[k].text = ClaimedReply(us[k].text)
     /\ \A t \in replyTimeouts : getStaticResponse(t.userMessage) = ClaimedReply(t.userMessage)

C12_Witness ==
  LET us == UserMessages(messages)
      rs == Replies(messages)
  IN /\ Len(rs) = 2 /\ Len(Alerts(messages)) = 1
     /\ us[1].text = <<"E", "x", "c", "e", "l", " ", "E", "R", "R", "O", "R">>
     /\ rs[1].text = RemediationReply
     /\ us[2].text = <<"w", "o", "r", "d", " ", "h", "e", "l", "p">>
     /\ rs[2].text = FormatReply

\* ---- C13
\* The source name without a trailing ".pdf", tagged and given the extension
\* of the target format.
ClaimedName(sourceName, fmt) ==
  LET n == Len(sourceName)
      stem == IF n >= 4 /\ SubSeq(sourceName, n - 3, n) = <<".", "p", "d", "f">>
              THEN SubSeq(sourceName, 1, n - 4)
              ELSE sourceName
  IN stem \o <<"_", "v", "4", "2", ".">>
          \o (IF fmt = "excel" THEN <<"x", "l", "s", "x">> ELSE <<"t", "x", "t">>)

\* C13: every download of the mounted panel is named after the selected file
\* with only its trailing ".pdf" removed, then "_v42" and the extension of the
\* target format. The code removes the first ".pdf" instead, so the name
\* "a.pdfb.pdf" is saved as "ab.pdf_v42.xlsx".
C13_NameStripsTrailingSuffix ==
  [][(Len(downloads') = Len(downloads) + 1 /\ file' # None)
       => downloads'[Len(downloads')].name = ClaimedName(file'[1].name, format')]_vars

\* ---- C14
\* Two files that differ at most in their bytes.
SameName(f1, f2) == f1.name = f2.name

\* C14: the result of a run does not depend on the bytes of the selected file.
\* Whenever a run is in progress, finishing it with the selected file or with
\* any other file of the same name, in the same format and at the same time,
\* stores the same result and leaves the same downloads; and the result a
\* finished run has stored is the one any file of that name would have given.
C14_ResultIgnoresFileBytes ==
  /\ \A t \in progIntervals, f2 \in Files, ts \in Timestamps :
       (SameName(t.selectedFile, f2) /\ f2 # t.selectedFile) =>
         LET r1 == finishConversion(W, t.selectedFile, t.format, ts)
             r2 == finishConversion(W, f2, t.format, ts)
         IN r1.resultBlob = r2.resultBlob /\ r1.downloads = r2.downloads
  /\ (Succeeded /\ file # None) =>
       \E fmt \in Formats, ts \in Timestamps : \A g \in Files :
         SameName(g, file[1]) =>
           finishConversion(W, g, fmt, ts).resultBlob = resultBlob

\* The second run of the same name ended with other bytes selected, in the
\* text format, and saved what the first run saved.
C14_Witness ==
  /\ Succeeded /\ RunsStarted = 2 /\ Len(downloads) = 2
  /\ file = Some([name |-> <<"r", ".", "p", "d", "f">>, content |-> "bytesB"])
  /\ format = "word"
  /\ downloads[1] = downloads[2]

\* ---- C15
\* C15: the transcript only grows at its end. Every step (typing, a
\* submission, a delayed reply, a delivery of the error signal) leaves the
\* transcript it found as a prefix of the new one and adds at most one
\* message, so every earlier transcript is a prefix of every later one.
C15_TranscriptAppendOnly ==
  [][/\ Len(messages') \in {Len(messages), Len(messages) + 1}
     /\ SubSeq(messages', 1, Len(messages)) = messages]_vars

\* A transcript grown by all three kinds of step: two submissions, one reply
\* delivered and one still pending, and an alert in between.
C15_Witness ==
  /\ Len(messages) = 5 /\ messages[1] = Greeting
  /\ messages[2].role = "user" /\ IsAlert(messages[3])
  /\ messages[4].text = UsageReply /\ messages[5].role = "user"
  /\ aiLoading

\* ---- C16
\* A run reaches 100%: its progress timer is cancelled by the completing tick.
RunCompletes == Cardinality(progIntervals') < Cardinality(progIntervals)

\* C16: the tick on which a run reaches 100% triggers exactly one download; in
\* the mounted panel that tick is the step from Running to Succeeded and the
\* download carries the payload stored as resultBlob. The state becomes
\* Succeeded on no other step, and a progress tick that does not complete the
\* run triggers no download.
C16_OneDownloadOnCompletion ==
  [][/\ RunCompletes =>
          /\ Len(downloads') = Len(downloads) + 1
          /\ SubSeq(downloads', 1, Len(downloads)) = downloads
          /\ mounted => /\ ~Succeeded /\ Succeeded'
                        /\ resultBlob' = Some(downloads'[Len(downloads')].payload)
     /\ (~Succeeded /\ Succeeded') => RunCompletes
     /\ (ProgressTick /\ ~RunCompletes) => downloads' = downloads]_vars

\* The first run has just completed in the text format: one download, holding
\* the stored report.
C16_Witness ==
  /\ mounted /\ Succeeded /\ RunsStarted = 1 /\ Len(downloads) = 1
  /\ resultBlob = Some(downloads[1].payload)
  /\ downloads[1].payload.type = "text/plain"
  /\ statusMessage = "EXTRACTION_SUCCESS"

\* ---- C17
\* C17: the conversion panel never raises an error. In every reachable state
\* error is null, so the error overlay is not rendered; the value last passed
\* to onErrorUpdate, if any, is null; and rendering the assistant with that
\* value adds no alert to its transcript.
C17_PanelNeverRaisesError ==
  /\ error = None
  /\ ~ErrorOverlayRendered
  /\ errorSignal \in {None, Some(None)}
  /\ errorSignal # None =>
       Alerts(renderWithError(A, errorSignal[1]).messages) = Alerts(messages)

\* The second run is in progress after a re-download and a reset: every
\* handler that calls onErrorUpdate has run.
C17_Witness ==
  /\ mounted /\ loading /\ RunsStarted = 2 /\ Len(downloads) = 2
  /\ simProgress > MidLimit
  /\ errorSignal = Some(None) /\ error = None

\* ---- C18
\* The increment policy as stated, in tenths of a percent: 4.5 below 40, 1.2
\* from 40 and below 85, 0.5 from 85 on.
PolicyStep(p) ==
  CASE p < 400 -> 45
    [] p >= 400 /\ p < 850 -> 12
    [] p >= 850 -> 5

\* 9 ticks of 4.5, 38 of 1.2 and 28 of 0.5
TicksToComplete == 9 + 38 + 28

RECURSIVE PolicyRun(_, _)
\* acc extended by n more ticks of the policy.
PolicyRun(acc, n) ==
  IF n = 0 THEN acc
  ELSE LET p == acc[Len(acc)] IN PolicyRun(Append(acc, p + PolicyStep(p)), n - 1)

\* Entry k + 1 is the accumulated progress after k ticks of a run.
PolicyTable == PolicyRun(<<0>>, TicksToComplete)
ProgAfter(k) == PolicyTable[k + 1]

\* The number of ticks the progress timer t has run.
TicksDone(t) == CHOOSE k \in 0..TicksToComplete : ProgAfter(k) = t.prog

\* C18: a run follows the three-tier policy and completes on its 75th progress
\* tick, no sooner and no later. While the panel shows a run, its progress
\* timer is live (so a tick is enabled), has run fewer than 75 ticks, and the
\* shown progress is the accumulated one clamped to 100; each tick of a timer
\* advances its count by one, and the tick that brings the count to 75 ends
\* the timer and, in the mounted panel, enters Succeeded. The count bounds the
\* ticks left, so under fair firing of the timer every run reaches Succeeded.
C18_CompletesAfter75Ticks ==
  /\ [](/\ \A k \in 0..(TicksToComplete - 1) : ProgAfter(k) < 1000
        /\ ProgAfter(TicksToComplete) >= 1000
        /\ \A t \in progIntervals :
             \E k \in 0..(TicksToComplete - 1) : t.prog = ProgAfter(k)
        /\ (mounted /\ loading) =>
             /\ ~Succeeded
             /\ \E t \in progIntervals :
                  /\ progressTimer = Some(t.id)
                  /\ simProgress = Min(t.prog, 1000))
  /\ [][\A t \in progIntervals :
          t \notin progIntervals' =>
            IF TicksDone(t) + 1 = TicksToComplete
            THEN /\ t.id \notin TimerIds(progIntervals')
                 /\ mounted => (loading /\ Succeeded' /\ simProgress' = 1000)
            ELSE /\ \E u \in progIntervals' :
                      u.id = t.id /\ TicksDone(u) = TicksDone(t) + 1
                 /\ mounted => (loading' /\ ~Succeeded')]_vars

\* A run one tick short of completion: 74 ticks done, 99.6% shown.
C18_Witness ==
  /\ mounted /\ loading /\ simProgress = 996
  /\ \E t \in progIntervals : TicksDone(t) = 74 /\ progressTimer = Some(t.id)

\* ---- C19
\* Entry i of the label list, counted from 0.
LabelEntry(i) == telemetryLabels[i + 1]

\* C19: the list has 6 distinct labels, and during a run the label shown
\* after the k-th telemetry tick (k >= 1) is entry (k - 1) mod 6 of the list:
\* the first tick shows the first label, the seventh shows it again. Before
\* the first tick of a run, of the first run or of a later one, the idle
\* label is shown, so every run starts the cycle at the first label.
C19_LabelFollowsTickCount ==
  /\ Len(telemetryLabels) = 6
  /\ Cardinality({telemetryLabels[i] : i \in 1..Len(telemetryLabels)}) = 6
  /\ (mounted /\ loading) =>
       /\ Cardinality(telIntervals) = 1
       /\ \A t \in telIntervals :
            /\ telemetryTimer = Some(t.id)
            /\ telemetry = IF t.telIdx = 0 THEN "SYSTEM_IDLE"
                           ELSE LabelEntry((t.telIdx - 1) % 6)

\* The seventh tick of the second run has wrapped to the first label.
C19_Witness ==
  /\ mounted /\ loading /\ RunsStarted = 2
  /\ telemetry = LabelEntry(0)
  /\ \E t \in telIntervals : t.telIdx = 7

\* ---- C20
\* C20: the two timer callbacks write disjoint state. A telemetry tick changes
\* nothing but the telemetry label and its own counter; a progress tick, the
\* completing one included, leaves the label alone. Hence the two commute:
\* from every state with both timers live, a progress tick after a telemetry
\* tick gives what the telemetry tick after the progress tick gives, and when
\* the progress tick completes the run (so that no telemetry tick can follow)
\* the outcome with and without the telemetry tick before it differs in the
\* label only. The Succeeded state always shows 100% and the success status.
C20_TimersWriteDisjointState ==
  /\ [](/\ \A tp \in progIntervals, tt \in telIntervals, ts \in Timestamps :
             LET p == progressCallback(W, tp, ts)
                 tp1 == progressCallback(telemetryCallback(W, tt), tp, ts)
             IN IF tp.id \in TimerIds(p.progIntervals)
                THEN tp1 = telemetryCallback(p, tt)
                ELSE [tp1 EXCEPT !.telemetry = p.telemetry] = p
        /\ Succeeded => (simProgress = 1000 /\ statusMessage = "EXTRACTION_SUCCESS"))
  /\ [][TelemetryTick =>
          UNCHANGED <<file, loading, downloadReady, error, statusMessage, simProgress,
                      resultBlob, progressTimer, telemetryTimer, progIntervals,
                      errorSignal, downloads, format>>]_vars
  /\ [][ProgressTick => UNCHANGED telemetry]_vars

\* A first run completed with three telemetry ticks interleaved among its
\* progress ticks.
C20_Witness ==
  /\ mounted /\ Succeeded /\ RunsStarted = 1 /\ Len(downloads) = 1
  /\ telemetry = LabelEntry(2) /\ simProgress = 1000

\* ---- C21
EndsWith(s, suffix) ==
  Len(s) >= Len(suffix) /\ SubSeq(s, Len(s) - Len(suffix) + 1, Len(s)) = suffix

\* The extension of a saved name fits the kind of payload saved under it.
ExtensionFitsPayload(d) ==
  IF d.payload.type = "text/plain"
  THEN EndsWith(d.name, <<".", "t", "x", "t">>)
  ELSE EndsWith(d.name, <<".", "x", "l", "s", "x">>)

\* C21: every download, the automatic one and every re-download, is saved
\* under the extension of the format its payload was produced in: xlsx for a
\* spreadsheet, txt for a text report. The re-download takes the extension
\* from the format selected at the time of the click, so a spreadsheet
\* produced under excel is saved as .txt once the format is switched to word.
C21_ExtensionMatchesPayload ==
  \A i \in 1..Len(downloads) : ExtensionFitsPayload(downloads[i])

====
